---- MODULE Spec2Model ----
(***************************************************************************)
(* Loan Qualifier Application: the interactive run of app.py (load the     *)
(* rate sheet, collect the applicant profile, compute both ratios, run the *)
(* four filters, report the count, decide about saving) and the CSV        *)
(* helpers of qualifier/utils/fileio.py (save_csv, load_csv) at the level  *)
(* of the characters of the file.                                          *)
(***************************************************************************)
EXTENDS Integers, Sequences, FiniteSets, TLC

\* ---------------------------------------------------------------- bounds
\* longest rate sheet (number of offers) the run is given
MaxOffers == 2
\* longest list of sample rows handed to save_csv in the CSV specification
MaxRows == 2
\* most characters of a raw file handed to load_csv in the CSV specification,
\* not counting a leading header line
MaxText == 4

\* ------------------------------------------------------------ vocabulary
\* questionary's ask() returns None when the prompt is cancelled
None == "None"

default_bank_loan_data == "./data/daily_rate_sheet.csv"

default_output_data == "./my_bank_loans.csv"

\* what a user can type at a file-path prompt
PathEntries == {"", "rates.csv", None}

\* what questionary.confirm(...).ask() can return
ConfirmAnswers == {"True", "False", None}

\* A row of the rate sheet, positional as in the file:
\*   <<lender, max loan amount, max LTV, max DTI, min credit score, rate>>
\* (Python bank[0] .. bank[5] are row[1] .. row[6] here).  The two ratio
\* thresholds are held in hundredths: 80 stands for the field "0.80".
Offers ==
    { <<"Bank A", 200000, 80, 40, 650, 3>>,
      <<"Bank B", 100000, 90, 50, 720, 4>>,
      <<"Bank C", 300000, 60, 20, 700, 5>> }

RECURSIVE SeqsUpTo(_, _)
SeqsUpTo(S, n) ==
    IF n = 0 THEN {<<>>}
    ELSE LET shorter == SeqsUpTo(S, n - 1)
         IN  shorter \cup {Append(s, x) : s \in {t \in shorter : Len(t) = n - 1}, x \in S}

\* the offers a rate sheet can hold after its header line
RateSheets == SeqsUpTo(Offers, MaxOffers)

\* answers typed at the five applicant prompts, as typed (characters)
CreditAnswers == { <<"7","0","0">>, <<"7","5","0">>, <<"a","b","c">> }

DebtAnswers == { <<"1","0","0","0">>, <<"3","0","0","0">>, <<>> }

IncomeAnswers == { <<"0">>, <<"6","0","0","0">> }

LoanAnswers == { <<"1","0","0","0","0","0">>, <<"1","5","0","0","0","0">> }

HomeAnswers == { <<"0">>, <<"2","0","0","0","0","0">>, <<"1","6","0","0","0","0">> }

\* ------------------------------------------------------ numeric coercion
DigitChars == <<"0","1","2","3","4","5","6","7","8","9">>

IsDigit(c) == \E d \in 1..10 : DigitChars[d] = c

DigitVal(c) == (CHOOSE d \in 1..10 : DigitChars[d] = c) - 1

\* int(s) / float(s) succeed on a non-empty string of digits and raise
\* ValueError otherwise (the answers drawn here carry no sign or fraction)
IsNumeric(s) == Len(s) > 0 /\ \A i \in 1..Len(s) : IsDigit(s[i])

RECURSIVE int(_)
int(s) == IF Len(s) = 0 THEN 0
          ELSE 10 * int(SubSeq(s, 1, Len(s) - 1)) + DigitVal(s[Len(s)])

float(s) == int(s)

\* ------------------------------------------------------ ratio calculators
\* A ratio is kept exact as <<numerator, denominator>>, denominator > 0.
calculate_monthly_debt_ratio(monthly_debt, monthly_income) ==
    <<monthly_debt, monthly_income>>

calculate_loan_to_value_ratio(loan_amount, home_value) ==
    <<loan_amount, home_value>>

\* ratio <= hundredths / 100
RatioLeq(ratio, hundredths) == ratio[1] * 100 <= hundredths * ratio[2]

\* ---------------------------------------------------------------- filters
filter_max_loan_size(loan_amount, bank_list) ==
    SelectSeq(bank_list, LAMBDA bank : loan_amount <= bank[2])

filter_credit_score(credit_score, bank_list) ==
    SelectSeq(bank_list, LAMBDA bank : credit_score >= bank[5])

filter_debt_to_income(monthly_debt_ratio, bank_list) ==
    SelectSeq(bank_list, LAMBDA bank : RatioLeq(monthly_debt_ratio, bank[4]))

filter_loan_to_value(loan_to_value_ratio, bank_list) ==
    SelectSeq(bank_list, LAMBDA bank : RatioLeq(loan_to_value_ratio, bank[3]))

\* -------------------------------------------------------------- pipeline
\* The five values bank_data_filtered's chain goes through in
\* find_qualifying_loans: the list passed in, then the result of each of the
\* four filter calls, each applied to the result of the one before it.
\* variant: the third filter is handed the unfiltered list
pipeline_stages_wrong_input(bank_list, credit, dti, loan_amount, ltv) ==
    LET s1 == filter_max_loan_size(loan_amount, bank_list)
        s2 == filter_credit_score(credit, s1)
        s3 == filter_debt_to_income(dti, bank_list)
        s4 == filter_loan_to_value(ltv, s3)
    IN  <<bank_list, s1, s2, s3, s4>>

\* variant: the fourth filter is handed the debt-to-income ratio
pipeline_stages_wrong_ratio(bank_list, credit, dti, loan_amount, ltv) ==
    LET s1 == filter_max_loan_size(loan_amount, bank_list)
        s2 == filter_credit_score(credit, s1)
        s3 == filter_debt_to_income(dti, s2)
        s4 == filter_loan_to_value(dti, s3)
    IN  <<bank_list, s1, s2, s3, s4>>

pipeline_stages(bank_list, credit, dti, loan_amount, ltv) ==
    LET s1 == filter_max_loan_size(loan_amount, bank_list)
        s2 == filter_credit_score(credit, s1)
        s3 == filter_debt_to_income(dti, s2)
        s4 == filter_loan_to_value(ltv, s3)
    IN  <<bank_list, s1, s2, s3, s4>>

\* ------------------------------------------------------------------ state
VARIABLES
    pc,                  \* where run() is: the next call it makes, or how it ended
    log,                 \* what the run has done so far, in order
    csv_file_path,       \* load_bank_data: the resolved rate-sheet path
    path_exists,         \* load_bank_data: outcome of csv_file_path.exists()
    bank_data,           \* run: the rows load_csv returned
    credit_score, debt, income, loan_amount, home_value,   \* the applicant profile
    monthly_debt_ratio,  \* find_qualifying_loans
    loan_to_value_ratio, \* find_qualifying_loans
    stages,              \* find_qualifying_loans: successive values of bank_data_filtered
    qualifying_loans,    \* run: what find_qualifying_loans returned
    save_loan_input,     \* save_qualifying_loans: answer to the save confirmation
    saved,               \* the calls made to save_csv: <<path, loan_data>> each
    cpc,                 \* CSV specification: next step
    raw_text,            \* CSV specification: a file as found on disk
    loan_data,           \* CSV specification: the rows handed to save_csv
    csv_text,            \* CSV specification: the file save_csv wrote
    data                 \* CSV specification: what load_csv returned for csv_text

run_vars ==
    <<pc, log, csv_file_path, path_exists, bank_data, credit_score, debt, income,
      loan_amount, home_value, monthly_debt_ratio, loan_to_value_ratio, stages,
      qualifying_loans, save_loan_input, saved>>

csv_vars == <<cpc, raw_text, loan_data, csv_text, data>>

vars == <<run_vars, csv_vars>>

applicant_vars == <<credit_score, debt, income, loan_amount, home_value>>

find_vars == <<monthly_debt_ratio, loan_to_value_ratio, stages, qualifying_loans>>

Unset == "unset"

RunInit ==
    /\ pc = "load_bank_data"
    /\ log = <<>>
    /\ csv_file_path = Unset
    /\ path_exists = Unset
    /\ bank_data = <<>>
    /\ credit_score = 0 /\ debt = 0 /\ income = 0 /\ loan_amount = 0 /\ home_value = 0
    /\ monthly_debt_ratio = <<>>
    /\ loan_to_value_ratio = <<>>
    /\ stages = <<>>
    /\ qualifying_loans = <<>>
    /\ save_loan_input = Unset
    /\ saved = <<>>

CsvIdle ==
    /\ cpc = "idle"
    /\ raw_text = <<>>
    /\ loan_data = <<>>
    /\ csv_text = <<>>
    /\ data = <<>>

Init == RunInit /\ CsvIdle

\* ----------------------------------------------------------------- app.py
\* load_bank_data(), called first by run().  Path(None) raises TypeError when
\* the prompt was cancelled; a missing path prints and leaves through
\* exit_application() (sys.exit); load_csv's next(csvreader) raises
\* StopIteration on a file without a header line.
\* variant: a missing path is reported but the run goes on to load_csv
load_bank_data_no_exit ==
    /\ pc = "load_bank_data"
    /\ \E entry \in PathEntries, exists \in BOOLEAN, has_header \in BOOLEAN,
          rows \in RateSheets :
         IF entry = None
         THEN /\ log' = log \o <<"ask_rate_sheet_path", "error">>
              /\ pc' = "aborted"
              /\ UNCHANGED <<csv_file_path, path_exists, bank_data>>
         ELSE /\ csv_file_path' = (IF entry = "" THEN default_bank_loan_data ELSE entry)
              /\ IF ~exists
                 THEN /\ path_exists' = "no"
                      /\ log' = log \o <<"ask_rate_sheet_path", "print_cant_find_path",
                                         "load_csv", "error">>
                      /\ pc' = "aborted"
                      /\ UNCHANGED bank_data
                 ELSE /\ path_exists' = "yes"
                      /\ IF ~has_header
                         THEN /\ log' = log \o <<"ask_rate_sheet_path", "load_csv", "error">>
                              /\ pc' = "aborted"
                              /\ UNCHANGED bank_data
                         ELSE /\ log' = log \o <<"ask_rate_sheet_path", "load_csv">>
                              /\ bank_data' = rows
                              /\ pc' = "get_applicant_info"
    /\ UNCHANGED <<applicant_vars, find_vars, save_loan_input, saved, csv_vars>>

load_bank_data ==
    /\ pc = "load_bank_data"
    /\ \E entry \in PathEntries, exists \in BOOLEAN, has_header \in BOOLEAN,
          rows \in RateSheets :
         IF entry = None
         THEN /\ log' = log \o <<"ask_rate_sheet_path", "error">>
              /\ pc' = "aborted"
              /\ UNCHANGED <<csv_file_path, path_exists, bank_data>>
         ELSE /\ csv_file_path' = (IF entry = "" THEN default_bank_loan_data ELSE entry)
              /\ IF ~exists
                 THEN /\ path_exists' = "no"
                      /\ log' = log \o <<"ask_rate_sheet_path", "print_cant_find_path",
                                         "exit_application">>
                      /\ pc' = "exited"
                      /\ UNCHANGED bank_data
                 ELSE /\ path_exists' = "yes"
                      /\ IF ~has_header
                         THEN /\ log' = log \o <<"ask_rate_sheet_path", "load_csv", "error">>
                              /\ pc' = "aborted"
                              /\ UNCHANGED bank_data
                         ELSE /\ log' = log \o <<"ask_rate_sheet_path", "load_csv">>
                              /\ bank_data' = rows
                              /\ pc' = "get_applicant_info"
    /\ UNCHANGED <<applicant_vars, find_vars, save_loan_input, saved, csv_vars>>

\* get_applicant_info(): five prompts, then five coercions; the first answer
\* that is not a number raises and nothing is returned.
AskApplicant ==
    <<"ask_credit_score", "ask_debt", "ask_income", "ask_loan_amount", "ask_home_value">>

get_applicant_info ==
    /\ pc = "get_applicant_info"
    /\ \E a_credit \in CreditAnswers, a_debt \in DebtAnswers, a_income \in IncomeAnswers,
          a_loan \in LoanAnswers, a_home \in HomeAnswers :
         IF \A a \in {a_credit, a_debt, a_income, a_loan, a_home} : IsNumeric(a)
         THEN /\ credit_score' = int(a_credit)
              /\ debt' = float(a_debt)
              /\ income' = float(a_income)
              /\ loan_amount' = float(a_loan)
              /\ home_value' = float(a_home)
              /\ log' = log \o AskApplicant
              /\ pc' = "find_qualifying_loans"
         ELSE /\ log' = log \o AskApplicant \o <<"error">>
              /\ pc' = "aborted"
              /\ UNCHANGED applicant_vars
    /\ UNCHANGED <<csv_file_path, path_exists, bank_data, find_vars, save_loan_input,
                   saved, csv_vars>>

\* find_qualifying_loans(bank_data, credit_score, debt, income, loan, home_value)
FilterCalls ==
    <<"filter_max_loan_size", "filter_credit_score", "filter_debt_to_income",
      "filter_loan_to_value">>

find_qualifying_loans ==
    /\ pc = "find_qualifying_loans"
    /\ IF income = 0
       THEN /\ log' = log \o <<"calculate_monthly_debt_ratio", "error">>
            /\ pc' = "aborted"
            /\ UNCHANGED find_vars
       ELSE /\ monthly_debt_ratio' = calculate_monthly_debt_ratio(debt, income)
            /\ IF home_value = 0
               THEN /\ log' = log \o <<"calculate_monthly_debt_ratio",
                                       "calculate_loan_to_value_ratio", "error">>
                    /\ pc' = "aborted"
                    /\ UNCHANGED <<loan_to_value_ratio, stages, qualifying_loans>>
               ELSE /\ loan_to_value_ratio' = calculate_loan_to_value_ratio(loan_amount, home_value)
                    /\ stages' = pipeline_stages(bank_data, credit_score, monthly_debt_ratio',
                                                 loan_amount, loan_to_value_ratio')
                    /\ qualifying_loans' = stages'[5]
                    /\ log' = log \o <<"calculate_monthly_debt_ratio",
                                       "calculate_loan_to_value_ratio">>
                                  \o FilterCalls \o <<"print_found_count">>
                    /\ pc' = "save_qualifying_loans"
    /\ UNCHANGED <<csv_file_path, path_exists, bank_data, applicant_vars, save_loan_input,
                   saved, csv_vars>>

\* save_qualifying_loans(qualifying_loans)
\* variant: the answer to the confirmation is not looked at
save_qualifying_loans_no_opt_out ==
    /\ pc = "save_qualifying_loans"
    /\ \E answer \in ConfirmAnswers, entry \in PathEntries :
         /\ save_loan_input' = answer
         /\ IF ~(Len(qualifying_loans) > 1)
            THEN /\ log' = log \o <<"ask_save_confirm", "print_no_qualifying_loans",
                                    "exit_application">>
                 /\ pc' = "exited"
                 /\ UNCHANGED saved
            ELSE IF entry = None
            THEN /\ log' = log \o <<"ask_save_confirm", "ask_output_path", "error">>
                 /\ pc' = "aborted"
                 /\ UNCHANGED saved
            ELSE /\ log' = log \o <<"ask_save_confirm", "ask_output_path", "save_csv">>
                 /\ saved' = Append(saved,
                                    <<IF entry = "" THEN default_output_data ELSE entry,
                                      qualifying_loans>>)
                 /\ pc' = "exit_application"
    /\ UNCHANGED <<csv_file_path, path_exists, bank_data, applicant_vars, find_vars, csv_vars>>

save_qualifying_loans ==
    /\ pc = "save_qualifying_loans"
    /\ \E answer \in ConfirmAnswers, entry \in PathEntries :
         /\ save_loan_input' = answer
         /\ IF answer # "True"
            THEN /\ log' = log \o <<"ask_save_confirm", "exit_application">>
                 /\ pc' = "exited"
                 /\ UNCHANGED saved
            ELSE IF ~(Len(qualifying_loans) > 1)
            THEN /\ log' = log \o <<"ask_save_confirm", "print_no_qualifying_loans",
                                    "exit_application">>
                 /\ pc' = "exited"
                 /\ UNCHANGED saved
            ELSE IF entry = None
            THEN /\ log' = log \o <<"ask_save_confirm", "ask_output_path", "error">>
                 /\ pc' = "aborted"
                 /\ UNCHANGED saved
            ELSE /\ log' = log \o <<"ask_save_confirm", "ask_output_path", "save_csv">>
                 /\ saved' = Append(saved,
                                    <<IF entry = "" THEN default_output_data ELSE entry,
                                      qualifying_loans>>)
                 /\ pc' = "exit_application"
    /\ UNCHANGED <<csv_file_path, path_exists, bank_data, applicant_vars, find_vars, csv_vars>>

\* the exit_application() call that ends run()
\* variant: run() returns without calling exit_application
exit_application_skipped ==
    /\ pc = "exit_application"
    /\ pc' = "exited"
    /\ UNCHANGED <<log, csv_file_path, path_exists, bank_data, applicant_vars, find_vars,
                   save_loan_input, saved, csv_vars>>

exit_application ==
    /\ pc = "exit_application"
    /\ log' = Append(log, "exit_application")
    /\ pc' = "exited"
    /\ UNCHANGED <<csv_file_path, path_exists, bank_data, applicant_vars, find_vars,
                   save_loan_input, saved, csv_vars>>

Next ==
    \/ load_bank_data
    \/ get_applicant_info
    \/ find_qualifying_loans
    \/ save_qualifying_loans
    \/ exit_application

Spec == Init /\ [][Next]_vars

\* ------------------------------------------- qualifier/utils/fileio.py
\* A file is the sequence of its characters, a field is a sequence of
\* characters, a row is a sequence of fields.
COMMA == ","

QUOTE == "\""

CR == "\r"

LF == "\n"

\* the reader's end-of-line marker, processed after the characters of a line
EOL == "EOL"

\* header = "Lender,Max Loan Amount,Max LTV,Max DTI,Min Credit Score,Interest Rate"
header ==
    <<
       "L", "e", "n", "d", "e", "r", ",", "M", "a", "x", " ", "L", "o", "a",
       "n", " ", "A", "m", "o", "u", "n", "t", ",", "M", "a", "x", " ", "L",
       "T", "V", ",", "M", "a", "x", " ", "D", "T", "I", ",", "M", "i", "n",
       " ", "C", "r", "e", "d", "i", "t", " ", "S", "c", "o", "r", "e", ",",
       "I", "n", "t", "e", "r", "e", "s", "t", " ", "R", "a", "t", "e"
    >>

\* iterating a str yields its characters, each a str of length one
iter_str(s) == [i \in 1..Len(s) |-> <<s[i]>>]

\* the concatenation of ss[lo], ..., ss[hi]
RECURSIVE FlattenRange(_, _, _)
FlattenRange(ss, lo, hi) ==
    IF lo > hi THEN <<>>
    ELSE IF lo = hi THEN ss[lo]
    ELSE LET mid == (lo + hi) \div 2
         IN  FlattenRange(ss, lo, mid) \o FlattenRange(ss, mid + 1, hi)

Flatten(ss) == FlattenRange(ss, 1, Len(ss))

\* csv.writer, excel dialect: a field is quoted when it holds the delimiter,
\* the quote character or a character of the line terminator; quote
\* characters inside it are doubled
NeedsQuotes(field) == \E i \in 1..Len(field) : field[i] \in {COMMA, QUOTE, CR, LF}

QuoteField(field) ==
    IF NeedsQuotes(field)
    THEN <<QUOTE>>
         \o Flatten([i \in 1..Len(field) |->
                       IF field[i] = QUOTE THEN <<QUOTE, QUOTE>> ELSE <<field[i]>>])
         \o <<QUOTE>>
    ELSE field

\* writer.writerow(row): fields joined by the delimiter, a record that would
\* be empty although it has a field is written as "", then "\r\n"
writerow(row) ==
    LET rec == Flatten([i \in 1..Len(row) |->
                          (IF i > 1 THEN <<COMMA>> ELSE <<>>) \o QuoteField(row[i])])
    IN  (IF Len(row) > 0 /\ rec = <<>> THEN <<QUOTE, QUOTE>> ELSE rec) \o <<CR, LF>>

\* save_csv(csv_path_name, loan_data): the characters written to the file
\* (opened with newline='', so nothing is translated on the way out)
save_csv(rows) ==
    writerow(iter_str(header)) \o Flatten([i \in 1..Len(rows) |-> writerow(rows[i])])

\* open(csv_path_name, "r"): universal newlines, "\r\n" and "\r" read as "\n"
universal_newlines(raw) ==
    LET Dropped == ""
        read == [i \in 1..Len(raw) |->
                   IF raw[i] = LF /\ i > 1 /\ raw[i - 1] = CR THEN Dropped
                   ELSE IF raw[i] = CR THEN LF
                   ELSE raw[i]]
    IN  SelectSeq(read, LAMBDA c : c # Dropped)

\* csv.reader's parser: state, the field being built, the fields of the
\* record being built
ParseReset == [state |-> "START_RECORD", field |-> <<>>, fields |-> <<>>]

parse_save_field(S) == [S EXCEPT !.fields = Append(@, S.field), !.field = <<>>]

parse_add_char(S, c) == [S EXCEPT !.field = Append(@, c)]

EndOfField(S, c) ==
    [parse_save_field(S) EXCEPT !.state = IF c = EOL THEN "START_RECORD" ELSE "EAT_CRNL"]

StartField(S, c) ==
    IF c \in {LF, CR, EOL} THEN EndOfField(S, c)
    ELSE IF c = QUOTE THEN [S EXCEPT !.state = "IN_QUOTED_FIELD"]
    ELSE IF c = COMMA THEN [parse_save_field(S) EXCEPT !.state = "START_FIELD"]
    ELSE [parse_add_char(S, c) EXCEPT !.state = "IN_FIELD"]

parse_process_char(S, c) ==
    CASE S.state = "START_RECORD" ->
           IF c = EOL THEN S
           ELSE IF c \in {LF, CR} THEN [S EXCEPT !.state = "EAT_CRNL"]
           ELSE StartField(S, c)
      [] S.state = "START_FIELD" -> StartField(S, c)
      [] S.state = "IN_FIELD" ->
           IF c \in {LF, CR, EOL} THEN EndOfField(S, c)
           ELSE IF c = COMMA THEN [parse_save_field(S) EXCEPT !.state = "START_FIELD"]
           ELSE parse_add_char(S, c)
      [] S.state = "IN_QUOTED_FIELD" ->
           IF c = EOL THEN S
           ELSE IF c = QUOTE THEN [S EXCEPT !.state = "QUOTE_IN_QUOTED_FIELD"]
           ELSE parse_add_char(S, c)
      [] S.state = "QUOTE_IN_QUOTED_FIELD" ->
           IF c = QUOTE THEN [parse_add_char(S, c) EXCEPT !.state = "IN_QUOTED_FIELD"]
           ELSE IF c = COMMA THEN [parse_save_field(S) EXCEPT !.state = "START_FIELD"]
           ELSE IF c \in {LF, CR, EOL} THEN EndOfField(S, c)
           ELSE [parse_add_char(S, c) EXCEPT !.state = "IN_FIELD"]
      [] S.state = "EAT_CRNL" ->
           IF c \in {LF, CR} THEN S
           ELSE IF c = EOL THEN [S EXCEPT !.state = "START_RECORD"]
           ELSE [S EXCEPT !.state = "ERROR"]
      [] OTHER -> S

\* The records csv.reader yields for the lines of text (a line ends after
\* each "\n"; the last line may lack one).  After the characters of a line
\* the parser is given EOL; the record is complete when that leaves it in
\* START_RECORD.  At the end of the input an open quoted field is saved and
\* its record yielded.
ReadChar(R, c) ==
    LET T == parse_process_char(R.S, c)
        U == IF c = LF THEN parse_process_char(T, EOL) ELSE T
    IN  IF c = LF /\ U.state = "START_RECORD"
        THEN [S |-> ParseReset, records |-> Append(R.records, U.fields)]
        ELSE [S |-> U, records |-> R.records]

\* ReadChar over text[lo..hi], left to right, starting from R.  The range is
\* halved and the left half is read (the test on it) before the right half
\* starts, which keeps the evaluation shallow on long files.
RECURSIVE ReadRange(_, _, _, _)
ReadRange(R, text, lo, hi) ==
    IF lo > hi THEN R
    ELSE IF lo = hi THEN ReadChar(R, text[lo])
    ELSE LET mid  == (lo + hi) \div 2
             left == ReadRange(R, text, lo, mid)
         IN  IF left = left THEN ReadRange(left, text, mid + 1, hi) ELSE left

reader(text) ==
    LET R == ReadRange([S |-> ParseReset, records |-> <<>>], text, 1, Len(text))
        open_line == Len(text) > 0 /\ text[Len(text)] # LF
        T == IF open_line THEN parse_process_char(R.S, EOL) ELSE R.S
    IN  IF T.state = "START_RECORD"
        THEN (IF open_line THEN Append(R.records, T.fields) ELSE R.records)
        ELSE IF T.state = "IN_QUOTED_FIELD" \/ T.field # <<>>
             THEN Append(R.records, parse_save_field(T).fields)
             ELSE R.records

\* load_csv(csv_path_name): next(csvreader) raises StopIteration when the
\* reader yields nothing; otherwise every record after the first is returned
load_csv_raises(raw) == reader(universal_newlines(raw)) = <<>>

\* variant: the header record is not skipped
load_csv_keeps_header(raw) == reader(universal_newlines(raw))

load_csv(raw) == Tail(reader(universal_newlines(raw)))

\* ------------------------------------------------------ CSV specification
\* Files as found on disk: every text of at most MaxText characters, alone
\* and after a one-field header line
Texts == SeqsUpTo({"a", COMMA, QUOTE, CR, LF}, MaxText)

RawTexts == Texts \cup {<<"h", LF>> \o body : body \in Texts}

\* Rows as load_csv returns them for a rate sheet (fields are strings)
SampleRows ==
    { << <<"B","k",COMMA," ","A">>, <<"2","0","0">>, <<"0",".","8">> >>,
      << <<"B",QUOTE,"k",QUOTE>>, <<>>, <<"7","2","0">> >>,
      << <<"l","i","n","e",LF,"t","w","o">>, <<QUOTE>> >>,
      << <<>> >>,
      << >>,
      << <<"C">>, <<"3","0","0">>, <<"0",".","6">>, <<"0",".","2">>, <<"7","0","0">>, <<"5">> >> }

InitCsv ==
    /\ RunInit
    /\ csv_text = <<>>
    /\ data = <<>>
    /\ \/ /\ cpc = "load_csv"
          /\ raw_text \in RawTexts
          /\ loan_data = <<>>
       \/ /\ cpc = "save_csv"
          /\ raw_text = <<>>
          /\ loan_data \in SeqsUpTo(SampleRows, MaxRows)

\* the rows of a rate sheet are loaded
csv_load ==
    /\ cpc = "load_csv"
    /\ IF load_csv_raises(raw_text)
       THEN cpc' = "load_raised" /\ UNCHANGED loan_data
       ELSE cpc' = "save_csv" /\ loan_data' = load_csv(raw_text)
    /\ UNCHANGED <<raw_text, csv_text, data, run_vars>>

\* rows are written with save_csv
csv_save ==
    /\ cpc = "save_csv"
    /\ csv_text' = save_csv(loan_data)
    /\ cpc' = "reload"
    /\ UNCHANGED <<raw_text, loan_data, data, run_vars>>

\* the file save_csv wrote is read back with load_csv
csv_reload ==
    /\ cpc = "reload"
    /\ IF load_csv_raises(csv_text)
       THEN cpc' = "reload_raised" /\ UNCHANGED data
       ELSE cpc' = "done" /\ data' = load_csv(csv_text)
    /\ UNCHANGED <<raw_text, loan_data, csv_text, run_vars>>

NextCsv == csv_load \/ csv_save \/ csv_reload

SpecCsv == InitCsv /\ [][NextCsv]_vars

\* ------------------------------------------------------------ properties
Has(e) == \E i \in 1..Len(log) : log[i] = e

Count(e) == Cardinality({i \in 1..Len(log) : log[i] = e})

Pos(e) == CHOOSE i \in 1..Len(log) : log[i] = e

Last(s) == s[Len(s)]

\* C1: when the pipeline yields zero qualifying offers, the save confirmation
\* is not asked at all: the no-qualifying-loans notice is printed, the run
\* terminates and save_csv is never invoked.
C1_ZeroResultSkipsSavePrompt ==
    (pc = "exited" /\ Has("print_found_count") /\ qualifying_loans = <<>>)
        => /\ ~Has("ask_save_confirm")
           /\ Has("print_no_qualifying_loans")
           /\ saved = <<>>

\* C2: for a qualifying list of length >= 1, when the user confirms saving
\* (and gives an output path), the output path is prompted for, save_csv is
\* invoked exactly once with exactly that list, and the no-qualifying-loans
\* branch is not taken.
C2_NonEmptyConfirmedIsSaved ==
    (pc = "exited" /\ Has("ask_save_confirm") /\ ~Has("error")
       /\ Len(qualifying_loans) >= 1 /\ save_loan_input = "True")
        => /\ Has("ask_output_path")
           /\ Len(saved) = 1
           /\ saved[1][2] = qualifying_loans
           /\ ~Has("print_no_qualifying_loans")

\* C3: when the qualifying set is empty then, whatever the answer to the
\* save confirmation, the run reaches exit_application without invoking
\* save_csv and without prompting for an output path, and the user has been
\* notified that there are no qualifying loans before the run terminates.
C3_EmptySetNotifiesAndWritesNothing ==
    (Has("ask_save_confirm") /\ qualifying_loans = <<>>)
        => /\ pc = "exited"
           /\ Last(log) = "exit_application"
           /\ saved = <<>>
           /\ ~Has("save_csv")
           /\ ~Has("ask_output_path")
           /\ Has("print_no_qualifying_loans")

\* C4: when the user declines the save confirmation, the run terminates
\* through exit_application without prompting for an output path and
\* without invoking save_csv, whatever the qualifying list holds.
Declined == Has("ask_save_confirm") /\ save_loan_input \in {"False", None}

C4_DeclineExitsWithoutSaving ==
    Declined
        => /\ pc = "exited"
           /\ Last(log) = "exit_application"
           /\ ~Has("ask_output_path")
           /\ ~Has("save_csv")
           /\ saved = <<>>

C4_Witness ==
    /\ Declined
    /\ save_loan_input = "False"
    /\ Len(qualifying_loans) = 2
    /\ pc = "exited"

\* C5: if the resolved rate-sheet path (the entered one, or the default when
\* the entry is blank) does not exist, the run prints a message and
\* terminates at once: load_csv is never called, no applicant prompt is
\* asked, no ratio is computed, no filter runs and no file is written.
C5_MissingRateSheetTerminates ==
    path_exists = "no"
        => /\ pc = "exited"
           /\ log = <<"ask_rate_sheet_path", "print_cant_find_path", "exit_application">>
           /\ csv_file_path \in {default_bank_loan_data} \cup (PathEntries \ {"", None})
           /\ bank_data = <<>>
           /\ monthly_debt_ratio = <<>> /\ loan_to_value_ratio = <<>>
           /\ stages = <<>>
           /\ saved = <<>>

C5_Witness ==
    /\ path_exists = "no"
    /\ csv_file_path = default_bank_loan_data
    /\ pc = "exited"

\* s is t with some elements left out: same elements, same relative order
RECURSIVE IsSubSeq(_, _)
IsSubSeq(s, t) ==
    IF s = <<>> THEN TRUE
    ELSE IF t = <<>> THEN FALSE
    ELSE IF Head(s) = Head(t) THEN IsSubSeq(Tail(s), Tail(t))
    ELSE IsSubSeq(s, Tail(t))

\* C6: each of the four filter stages of find_qualifying_loans returns a
\* sequence whose elements are all elements of that stage's input, in the
\* same relative order (never longer, no row added or altered); the list
\* passed in as bank_data is left as it was; an empty bank_data gives an
\* empty list at every stage.
C6_StagesOnlyNarrow ==
    stages # <<>>
        => /\ Len(stages) = 5
           /\ stages[1] = bank_data
           /\ \A k \in 1..4 : /\ IsSubSeq(stages[k + 1], stages[k])
                              /\ Len(stages[k + 1]) <= Len(stages[k])
           /\ qualifying_loans = stages[5]
           /\ (bank_data = <<>> => \A k \in 1..5 : stages[k] = <<>>)

C6_Witness ==
    /\ stages # <<>>
    /\ Len(stages[1]) = 2
    /\ Len(stages[3]) = 2
    /\ Len(stages[4]) = 1
    /\ Len(stages[5]) = 1

\* one filter stage, by its place in the source's order, on the applicant's
\* values
Stage(k, bank_list) ==
    CASE k = 1 -> filter_max_loan_size(loan_amount, bank_list)
      [] k = 2 -> filter_credit_score(credit_score, bank_list)
      [] k = 3 -> filter_debt_to_income(monthly_debt_ratio, bank_list)
      [] k = 4 -> filter_loan_to_value(loan_to_value_ratio, bank_list)

RECURSIVE ApplyInOrder(_, _)
ApplyInOrder(order, bank_list) ==
    IF order = <<>> THEN bank_list
    ELSE ApplyInOrder(Tail(order), Stage(Head(order), bank_list))

Orders == {p \in [1..4 -> 1..4] : \A i, j \in 1..4 : p[i] = p[j] => i = j}

Qualifies(bank) ==
    /\ loan_amount <= bank[2]
    /\ credit_score >= bank[5]
    /\ RatioLeq(monthly_debt_ratio, bank[4])
    /\ RatioLeq(loan_to_value_ratio, bank[3])

\* C7: the final qualifying list does not depend on the order of the four
\* filters: every permutation of the stages gives the list the run
\* computed, which is exactly the offers of bank_data, in order, with
\* loan <= max loan amount, credit score >= min credit score,
\* dti <= max debt-to-income and ltv <= max loan-to-value.
C7_FilterOrderIrrelevant ==
    stages # <<>>
        => /\ \A p \in Orders : ApplyInOrder(p, bank_data) = qualifying_loans
           /\ qualifying_loans = SelectSeq(bank_data, Qualifies)

C7_Witness ==
    /\ stages # <<>>
    /\ Len(bank_data) = 2
    /\ Len(stages[2]) = 2
    /\ Len(qualifying_loans) = 1
    /\ \E k \in 1..4 : Len(Stage(k, bank_data)) = 2
    /\ \E k \in 3..4 : Len(Stage(k, bank_data)) = 1

\* C8: round trip: the rows load_csv returns for the file save_csv wrote
\* are the rows written, as many, in the same order, field for field; the
\* header save_csv writes is exactly the one record load_csv skips, and
\* reading back never fails.
C8_RoundTrip ==
    /\ cpc # "reload_raised"
    /\ cpc = "done" => /\ data = loan_data
                       /\ Len(data) = Len(loan_data)

C8_Witness ==
    /\ cpc = "done"
    /\ Len(loan_data) = 2
    /\ \E f \in 1..Len(loan_data[1]) : NeedsQuotes(loan_data[1][f])
    /\ loan_data[2] # loan_data[1]
    /\ data = loan_data

\* the six column names of the header
ColumnNames ==
    <<
       << "L", "e", "n", "d", "e", "r" >>,
       << "M", "a", "x", " ", "L", "o", "a", "n", " ", "A", "m", "o", "u", "n", "t" >>,
       << "M", "a", "x", " ", "L", "T", "V" >>,
       << "M", "a", "x", " ", "D", "T", "I" >>,
       << "M", "i", "n", " ", "C", "r", "e", "d", "i", "t", " ", "S", "c", "o", "r", "e" >>,
       << "I", "n", "t", "e", "r", "e", "s", "t", " ", "R", "a", "t", "e" >>
    >>

\* C9: the file save_csv produces is one header row whose fields are the
\* six column names Lender, Max Loan Amount, Max LTV, Max DTI,
\* Min Credit Score, Interest Rate, followed by exactly one row per offer of
\* the list passed in, in list order, and nothing else.
C9_SixColumnHeaderThenRows ==
    cpc \in {"reload", "done"}
        => LET records == reader(universal_newlines(csv_text))
           IN  /\ Len(records) = 1 + Len(loan_data)
               /\ records[1] = ColumnNames
               /\ Tail(records) = loan_data

\* the phases of a run, in the order run() and find_qualifying_loans go
\* through them
Phases ==
    <<"ask_rate_sheet_path", "load_csv">> \o AskApplicant
      \o <<"calculate_monthly_debt_ratio", "calculate_loan_to_value_ratio">>
      \o FilterCalls \o <<"print_found_count", "ask_save_confirm">>

IsPhase(e) == \E i \in 1..Len(Phases) : Phases[i] = e

\* C10: every run goes through the phases in the fixed order load rows,
\* collect the applicant profile, compute both ratios, apply the four
\* filters, report the count, save decision, each at most once; save_csv is
\* invoked at most once, only after the count was reported and the user
\* confirmed; a run that no error aborted ends in exit_application.
C10_FixedPhaseOrder ==
    LET done == SelectSeq(log, IsPhase)
    IN  /\ Len(done) <= Len(Phases)
        /\ done = SubSeq(Phases, 1, Len(done))
        /\ Count("save_csv") <= 1
        /\ Len(saved) = Count("save_csv")
        /\ Has("save_csv") => /\ save_loan_input = "True"
                              /\ Has("print_found_count") /\ Has("ask_save_confirm")
                              /\ Pos("print_found_count") < Pos("ask_save_confirm")
                              /\ Pos("ask_save_confirm") < Pos("save_csv")
                              /\ saved[1][2] = qualifying_loans
        /\ Count("exit_application") <= 1
        /\ Has("exit_application") => Last(log) = "exit_application" /\ pc = "exited"
        /\ (~ENABLED Next /\ ~Has("error"))
              => pc = "exited" /\ Last(log) = "exit_application"

C10_Witness ==
    /\ pc = "exited"
    /\ Has("save_csv")
    /\ Len(saved) = 1
    /\ Len(saved[1][2]) = 2
    /\ Last(log) = "exit_application"

====
